---- MODULE Spec2Model ----
(***************************************************************************)
(* Model of cca/archive-hr-news (src/code.js): the Apps Script that        *)
(* searches a Gmail mailbox and archives each matching message to a Drive  *)
(* folder as .eml, .html and .pdf, with its attachments.                   *)
(*                                                                         *)
(* JavaScript strings are modelled as sequences of one-character strings.  *)
(* A null, undefined or empty argument is modelled by the empty sequence:  *)
(* the code only ever tests these arguments for falsiness (!x, x || dflt). *)
(***************************************************************************)
EXTENDS Integers, Sequences, FiniteSets, TLC

VARIABLES
    pc,        \* position of the running entry point
    entry,     \* the call that was made: entry point and its arguments
    err,       \* the exception that left the entry point ("none" if none)
    calls,     \* remote calls made so far (Drive folder lookups, Gmail search)
    sender,    \* archiveEmails' sender argument once validated
    threads,   \* what GmailApp.search returned
    ti, mi, pi,         \* thread, message and part being processed
    savedAttachments,   \* per message: names of the part files pushed
    contentIdMap,       \* per message: content id -> stored file name
    html,               \* per message: result of buildMessageHtml
    drive,              \* files created in the Drive folder, in creation order
    attempts,           \* persistence steps attempted, in order
    saved,              \* archiveEmails' counter of fully saved messages
    fn, fnIn, fnMap, fnOut   \* a pure helper under test, its input and result

vars == <<pc, entry, err, calls, sender, threads, ti, mi, pi, savedAttachments,
          contentIdMap, html, drive, attempts, saved, fn, fnIn, fnMap, fnOut>>

runVars == <<pc, entry, err, calls, sender, threads, ti, mi, pi, savedAttachments,
             contentIdMap, html, drive, attempts, saved>>

textVars == <<fn, fnIn, fnMap, fnOut>>

(***************************************************************************)
(* Bounds of the model.                                                    *)
(***************************************************************************)
\* how far past the 120-character limit the sanitizer's inputs go
MaxOver == 3
\* longest input of escapeHtml that is enumerated
MaxEscLen == 4
\* number of pieces a message body is assembled from
MaxPieces == 3
\* number of values Math.random's five-digit suffix is drawn from
RandRange == 2

(***************************************************************************)
(* Strings.                                                                *)
(***************************************************************************)
Digits == <<"0", "1", "2", "3", "4", "5", "6", "7", "8", "9">>

IsDigit(c) == \E i \in 1..10 : Digits[i] = c

RECURSIVE NatToStr(_)
NatToStr(n) ==
    IF n < 10 THEN <<Digits[n + 1]>>
    ELSE NatToStr(n \div 10) \o <<Digits[(n % 10) + 1]>>

\* String(n) for an integer n
NumToStr(n) == IF n < 0 THEN <<"-">> \o NatToStr(0 - n) ELSE NatToStr(n)

Rep(c, n) == [i \in 1..n |-> c]

RECURSIVE Flatten(_)
Flatten(ss) == IF ss = <<>> THEN <<>> ELSE Head(ss) \o Flatten(Tail(ss))

\* s has t at (1-based) position i
MatchAt(s, t, i) ==
    /\ i >= 1
    /\ i + Len(t) - 1 <= Len(s)
    /\ \A k \in 1..Len(t) : s[i + k - 1] = t[k]

\* String.prototype.indexOf(t) >= 0
Contains(s, t) == \E i \in 1..(Len(s) + 1) : MatchAt(s, t, i)

\* String.prototype.toLowerCase on the letters the model uses
LowerChar(c) ==
    CASE c = "X" -> "x"
      [] c = "Y" -> "y"
      [] c = "Z" -> "z"
      [] OTHER -> c

toLowerCase(s) == [i \in 1..Len(s) |-> LowerChar(s[i])]

\* the characters JavaScript's \s matches, among those the model uses
Whitespace == {" ", "\t", "\n"}

(***************************************************************************)
(* sanitizeFilename                                                        *)
(***************************************************************************)
\* the class [\\\/:\*\?"<>\|]
IllegalChars == {"\\", "/", ":", "*", "?", "\"", "<", ">", "|"}

SanitizeMax == 120

\* the marker appended on truncation, as src/code.js holds it: the three
\* characters U+00E2 U+20AC U+00A6 (named here by their code points)
TruncationMarker == <<"U+00E2", "U+20AC", "U+00A6">>

\* .replace(/[\\\/:\*\?"<>\|]/g, ' ')
ReplaceIllegal(s) == [i \in 1..Len(s) |-> IF s[i] \in IllegalChars THEN " " ELSE s[i]]

\* .replace(/\s+/g, ' ') : the first character of each run of whitespace
\* becomes a space and the rest of the run goes
CollapseWhitespace(s) ==
    LET kept == SelectSeq([i \in 1..Len(s) |-> i],
                          LAMBDA i : ~(s[i] \in Whitespace /\ i > 1 /\ s[i - 1] \in Whitespace))
    IN  [k \in 1..Len(kept) |-> IF s[kept[k]] \in Whitespace THEN " " ELSE s[kept[k]]]

\* .trim()
RECURSIVE TrimLeft(_)
TrimLeft(s) ==
    IF s # <<>> /\ Head(s) \in Whitespace THEN TrimLeft(Tail(s)) ELSE s

RECURSIVE TrimRight(_)
TrimRight(s) ==
    IF s # <<>> /\ s[Len(s)] \in Whitespace
    THEN TrimRight(SubSeq(s, 1, Len(s) - 1))
    ELSE s

Trim(s) == TrimRight(TrimLeft(s))

sanitizeFilename(name) ==
    LET s == Trim(CollapseWhitespace(ReplaceIllegal(name)))
    IN  IF Len(s) > SanitizeMax
        THEN SubSeq(s, 1, SanitizeMax) \o TruncationMarker
        ELSE s

(***************************************************************************)
(* escapeHtml                                                              *)
(***************************************************************************)
Amp == <<"&", "a", "m", "p", ";">>
Lt == <<"&", "l", "t", ";">>
Gt == <<"&", "g", "t", ";">>
Quot == <<"&", "q", "u", "o", "t", ";">>

\* .replace(/c/g, rep) for a one-character pattern c
ReplaceChar(s, c, rep) ==
    Flatten([i \in 1..Len(s) |-> IF s[i] = c THEN rep ELSE <<s[i]>>])

\* escapeHtml with its last replacement dropped
escapeHtmlKeepingQuotes(s) ==
    ReplaceChar(ReplaceChar(ReplaceChar(s, "&", Amp), "<", Lt), ">", Gt)

\* a null or undefined argument is the empty sequence, and gives ''
escapeHtml(s) ==
    ReplaceChar(ReplaceChar(ReplaceChar(ReplaceChar(s, "&", Amp), "<", Lt), ">", Gt),
                "\"", Quot)

(***************************************************************************)
(* convertCIDtoBase64                                                      *)
(***************************************************************************)
CidPrefix == <<"c", "i", "d", ":">>

\* the characters that end a token: the complement of the class [^'">\s]
CidDelims == {"'", "\"", ">"} \cup Whitespace

\* last index of the run of non-delimiters that starts at j (j - 1 if none)
RECURSIVE TokenEnd(_, _)
TokenEnd(s, j) ==
    IF j > Len(s) \/ s[j] \in CidDelims THEN j - 1 ELSE TokenEnd(s, j + 1)

\* /cid:([^'">\s]+)/ matches at i
CidMatchAt(s, i) ==
    /\ MatchAt(s, CidPrefix, i)
    /\ TokenEnd(s, i + 4) >= i + 4

\* the 1-based positions where the global regex matches, left to right
RECURSIVE CidMatches(_, _)
CidMatches(s, i) ==
    IF i > Len(s) THEN <<>>
    ELSE IF CidMatchAt(s, i)
         THEN <<i>> \o CidMatches(s, TokenEnd(s, i + 4) + 1)
         ELSE CidMatches(s, i + 1)

\* the captured group of the match at i
CidToken(s, i) == SubSeq(s, i + 4, TokenEnd(s, i + 4))

\* property names every object literal inherits from Object.prototype (one
\* of them is enough for the model)
ObjectPrototypeKeys == {<<"v", "a", "l", "u", "e", "O", "f">>}

\* contentIdMap[cid] on a map built as {} : an own entry, an inherited
\* property (truthy, and no Drive file) or undefined
MapLookup(map, cid) ==
    IF cid \in DOMAIN map THEN "file"
    ELSE IF cid \in ObjectPrototypeKeys THEN "inherited"
    ELSE "undefined"

\* Utilities.base64Encode(blob.getBytes()): an abstract payload, drawn from
\* the base64 alphabet
Base64Data == <<"Q", "U", "=">>

\* 'data:' + blob.getContentType() + ';base64,' + base64Data
DataUri(file) ==
    <<"d", "a", "t", "a", ":">> \o file.mime
        \o <<";", "b", "a", "s", "e", "6", "4", ",">> \o Base64Data

\* the replacement callback's result for the match at i
CidReplacement(s, i, map) ==
    IF MapLookup(map, CidToken(s, i)) = "file"
    THEN DataUri(map[CidToken(s, i)])
    ELSE SubSeq(s, i, TokenEnd(s, i + 4))

RECURSIVE CidReplaceFrom(_, _, _)
CidReplaceFrom(s, i, map) ==
    IF i > Len(s) THEN <<>>
    ELSE IF CidMatchAt(s, i)
         THEN CidReplacement(s, i, map) \o CidReplaceFrom(s, TokenEnd(s, i + 4) + 1, map)
         ELSE <<s[i]>> \o CidReplaceFrom(s, i + 1, map)

\* file.getBlob() on an inherited property is a TypeError
CidThrows(s, map) ==
    \E k \in 1..Len(CidMatches(s, 1)) :
        MapLookup(map, CidToken(s, CidMatches(s, 1)[k])) = "inherited"

convertCIDtoBase64(s, map) ==
    IF CidThrows(s, map)
    THEN [threw |-> TRUE, html |-> <<>>]
    ELSE [threw |-> FALSE, html |-> CidReplaceFrom(s, 1, map)]

(***************************************************************************)
(* Inputs of the helpers.                                                  *)
(***************************************************************************)
SanitizeMids ==
    {<<>>, <<" ", "/", " ">>} \cup {<<c>> : c \in IllegalChars \cup Whitespace}

SanitizeLens == {0, 1} \cup ((SanitizeMax - 2)..(SanitizeMax + MaxOver))

SanitizeInputs ==
    {Rep("a", n) \o mid \o Rep("b", m) :
        n \in SanitizeLens, mid \in SanitizeMids, m \in 0..2}

EscapeAlphabet == {"&", "<", ">", "\"", "a", ";"}

EscapeInputs == UNION {[1..n -> EscapeAlphabet] : n \in 0..MaxEscLen}

BodyPieces ==
    {CidPrefix, <<"a">>, <<"b">>, <<")">>, <<"<">>, <<"\"">>, <<" ">>,
     <<"v", "a", "l", "u", "e", "O", "f">>}

BodyInputs == {Flatten(ps) : ps \in UNION {[1..n -> BodyPieces] : n \in 0..MaxPieces}}

MimePng == <<"i", "m", "a", "g", "e", "/", "p", "n", "g">>

\* content ids that parts may carry
CidKeys == {<<"a">>, <<"a", "b">>}

PngFile(n) == [name |-> n, mime |-> MimePng]

MapInputs == UNION {[K -> {PngFile(<<"f">>)}] : K \in SUBSET CidKeys}

(***************************************************************************)
(* The helpers applied to their inputs.                                    *)
(***************************************************************************)
NoMap == [k \in {} |-> <<>>]

TextInit ==
    /\ fn = "none"
    /\ fnIn = <<>>
    /\ fnMap = NoMap
    /\ fnOut = <<>>

ApplySanitize ==
    /\ fn = "none"
    /\ \E s \in SanitizeInputs :
        /\ fn' = "sanitizeFilename"
        /\ fnIn' = s
        /\ fnMap' = NoMap
        /\ fnOut' = sanitizeFilename(s)
    /\ UNCHANGED runVars

ApplyEscape ==
    /\ fn = "none"
    /\ \E s \in EscapeInputs :
        /\ fn' = "escapeHtml"
        /\ fnIn' = s
        /\ fnMap' = NoMap
        /\ fnOut' = escapeHtml(s)
    /\ UNCHANGED runVars

ApplyConvertCid ==
    /\ fn = "none"
    /\ \E s \in BodyInputs, map \in MapInputs :
        /\ fn' = "convertCIDtoBase64"
        /\ fnIn' = s
        /\ fnMap' = map
        /\ fnOut' = convertCIDtoBase64(s, map)
    /\ UNCHANGED runVars

TextNext == ApplySanitize \/ ApplyEscape \/ ApplyConvertCid

(***************************************************************************)
(* Arguments of the entry points.                                          *)
(***************************************************************************)
Dash0101 == <<"-", "0", "1", "-", "0", "1">>

\* /^\d{4}\-\d{2}\-\d{2}$/ ; the empty sequence (null, undefined, '') fails
\* the !x test before it
ValidDate(s) ==
    /\ Len(s) = 10
    /\ \A i \in {1, 2, 3, 4, 6, 7, 9, 10} : IsDigit(s[i])
    /\ s[5] = "-"
    /\ s[8] = "-"

\* a year argument: undefined, a number or a string
YearUndefined == [t |-> "undefined", v |-> 0]
YearNum(n) == [t |-> "number", v |-> n]
YearStr(s) == [t |-> "string", v |-> s]

\* !year || isNaN(year)
YearRejected(year) ==
    CASE year.t = "undefined" -> TRUE
      [] year.t = "number" -> year.v = 0
      [] OTHER -> year.v = <<>> \/ \E i \in 1..Len(year.v) : ~IsDigit(year.v[i])

\* year + '-01-01'
YearStart(year) ==
    IF year.t = "number" THEN NumToStr(year.v) \o Dash0101 ELSE year.v \o Dash0101

\* the end of the year taken as its last day, December 31
YearEndDecember(year) ==
    IF year.t = "number" THEN NumToStr(year.v) \o <<"-", "1", "2", "-", "3", "1">>
    ELSE year.v \o <<"1">> \o Dash0101

\* year + 1 + '-01-01' : a sum for a number, a concatenation for a string
YearEnd(year) ==
    IF year.t = "number" THEN NumToStr(year.v + 1) \o Dash0101
    ELSE year.v \o <<"1">> \o Dash0101

\* 'from:' + sender + ' subject:"' + subjectKeyword + '" after:' + startDate
\*   + ' before:' + endDate
BuildQuery(snd, kw, startDate, endDate) ==
    <<"f", "r", "o", "m", ":">> \o snd
        \o <<" ", "s", "u", "b", "j", "e", "c", "t", ":", "\"">> \o kw
        \o <<"\"", " ", "a", "f", "t", "e", "r", ":">> \o startDate
        \o <<" ", "b", "e", "f", "o", "r", "e", ":">> \o endDate

\* the checks archiveEmails makes before anything else
ArchiveEmailsError(startDate, endDate, snd) ==
    IF snd = <<>> THEN "sender"
    ELSE IF ~ValidDate(startDate) THEN "startDate"
    ELSE IF ~ValidDate(endDate) THEN "endDate"
    ELSE "none"

\* the checks archiveHRNews makes (its sender has a default)
ArchiveHRNewsError(startDate, endDate) ==
    IF ~ValidDate(startDate) THEN "startDate"
    ELSE IF ~ValidDate(endDate) THEN "endDate"
    ELSE "none"

EmailArchiveSuffix ==
    <<" ", "E", "m", "a", "i", "l", " ", "A", "r", "c", "h", "i", "v", "e">>

HRNewsArchive == <<"H", "R", " ", "N", "e", "w", "s", " ", "A", "r", "c", "h", "i", "v", "e">>

HRSender == <<"h", "r", "@", "c", "c", "a", ".", "e", "d", "u">>

HRKeyword == <<"H", "R", " ", "N", "E", "W", "S">>

\* getOrCreateFolderByName(name): the Drive calls it makes
GetOrCreateFolderCalls(name, exists) ==
    IF exists
    THEN <<[op |-> "getFoldersByName", arg |-> name]>>
    ELSE <<[op |-> "getFoldersByName", arg |-> name],
           [op |-> "createFolder", arg |-> name]>>

\* the id of the folder getOrCreateFolderByName returns
FoundFolderId == <<"G">>

FolderIdOr(folderId) == IF folderId # <<>> THEN folderId ELSE FoundFolderId

\* folderId || getOrCreateFolderByName(name).getId() : the Drive calls made
FolderCalls(folderId, name, exists) ==
    IF folderId # <<>> THEN <<>> ELSE GetOrCreateFolderCalls(name, exists)

(***************************************************************************)
(* The mailbox: what GmailApp.search may return.                           *)
(***************************************************************************)
AddrX == <<"x", "@", "y">>
AddrXUpper == <<"X", "@", "Y">>
AddrZ == <<"z", "@", "y">>

\* From headers as GmailMessage.getFrom() gives them, with the address each
\* one carries
FromBare(a) == [text |-> a, addr |-> a]
FromNamed(a) == [text |-> <<"N", " ", "<">> \o a \o <<">">>, addr |-> a]
FromQuoting(q, a) ==
    [text |-> <<"\"", "<">> \o q \o <<">", "\"", " ", "<">> \o a \o <<">">>, addr |-> a]

Froms ==
    {FromBare(AddrX), FromNamed(AddrX), FromNamed(AddrXUpper), FromNamed(AddrZ),
     FromBare(AddrZ), FromQuoting(AddrX, AddrZ)}

SubjectUpdate == <<"U", "p", "d", "a", "t", "e">>
Subjects == {SubjectUpdate, <<"A", "/", "B">>, <<>>}

Date1 == [y |-> 2025, m |-> 8, d |-> 12]

MimePdf == <<"a", "p", "p", "l", "i", "c", "a", "t", "i", "o", "n", "/", "p", "d", "f">>
NameImage == <<"i", "m", "a", "g", "e">>

\* a MIME part: filename ('' for the body), mimeType, whether body.attachmentId
\* is set, whether the bytes are there, and its Content-ID / X-Attachment-Id
\* header values ('' when the header is absent)
Part(fname, mime, byRef, hasData, contentId, xAttachmentId) ==
    [filename |-> fname, mimeType |-> mime, byRef |-> byRef, hasData |-> hasData,
     contentId |-> contentId, xAttachmentId |-> xAttachmentId]

BodyPart == Part(<<>>, <<"t", "e", "x", "t", "/", "h", "t", "m", "l">>, FALSE, TRUE, <<>>, <<>>)
ImageA == Part(NameImage, MimePng, TRUE, TRUE, <<"<", "a", ">">>, <<"a">>)
ImageAB == Part(NameImage, MimePng, FALSE, TRUE, <<>>, <<"a", "b">>)
PdfPart == Part(<<"r", "?", ".", "p", "d", "f">>, MimePdf, TRUE, TRUE, <<>>, <<>>)
LostPart == Part(<<"l">>, MimePdf, TRUE, FALSE, <<>>, <<>>)
\* a part whose embedded body.data Utilities.base64Decode cannot decode
BadPart == Part(<<"b">>, MimePdf, FALSE, FALSE, <<>>, <<>>)

PartSets ==
    {<<>>, <<BodyPart, ImageA, ImageAB>>, <<BodyPart, PdfPart>>, <<LostPart, ImageA, BadPart>>}

\* <i s="cid:a"> u(cid:ab)
BodyWithCids ==
    <<"<", "i", " ", "s", "=", "\"">> \o CidPrefix \o <<"a", "\"", ">", " ", "u", "(">>
        \o CidPrefix \o <<"a", "b", ")">>

Msg(from, subject, parts) ==
    [from |-> from, subject |-> subject, date |-> Date1, body |-> BodyWithCids,
     parts |-> parts]

FirstMessages ==
    {Msg(f, SubjectUpdate, <<BodyPart, ImageA, ImageAB>>) : f \in Froms}
        \cup {Msg(FromNamed(AddrX), SubjectUpdate, ps) : ps \in PartSets}
        \cup {Msg(FromNamed(AddrX), s, <<>>) : s \in Subjects}

SecondMessages ==
    {Msg(FromNamed(AddrZ), SubjectUpdate, <<>>), Msg(FromNamed(AddrX), <<"R", "e">>, <<>>)}

Mailboxes ==
    {<<>>}
        \cup {<< <<m1, m2>> >> : m1 \in FirstMessages, m2 \in SecondMessages}
        \cup {<< <<m1>>, <<m2>> >> : m1 \in SecondMessages, m2 \in SecondMessages}

(***************************************************************************)
(* Per-message helpers of archiveEmails.                                   *)
(***************************************************************************)
Pad2(n) == IF n < 10 THEN <<"0">> \o NatToStr(n) ELSE NatToStr(n)

\* Utilities.formatDate(date, timeZone, 'yyyy-MM-dd'), for four-digit years
formatDate(d) == NatToStr(d.y) \o <<"-">> \o Pad2(d.m) \o <<"-">> \o Pad2(d.d)

\* msg.getFrom().toLowerCase().indexOf(`<${sender.toLowerCase()}>`) !== -1
SenderMatches(fromText, snd) ==
    Contains(toLowerCase(fromText), <<"<">> \o toLowerCase(snd) \o <<">">>)

NoSubject == <<"(", "n", "o", " ", "s", "u", "b", "j", "e", "c", "t", ")">>

\* formattedDate + ' - ' + sanitizeFilename(msg.getSubject() || '(no subject)')
filenameBase(m) ==
    formatDate(m.date) \o <<" ", "-", " ">>
        \o sanitizeFilename(IF m.subject = <<>> THEN NoSubject ELSE m.subject)

ExtEml == <<".", "e", "m", "l">>
ExtHtml == <<".", "h", "t", "m", "l">>
ExtPdf == <<".", "p", "d", "f">>

\* part.mimeType.match(/^image\//) ? part.mimeType.split('/')[1] : ''
RECURSIVE UpToSlash(_)
UpToSlash(s) ==
    IF s = <<>> \/ Head(s) = "/" THEN <<>> ELSE <<Head(s)>> \o UpToSlash(Tail(s))

ImageExt(mime) ==
    IF MatchAt(mime, <<"i", "m", "a", "g", "e", "/">>, 1)
    THEN UpToSlash(SubSeq(mime, 7, Len(mime)))
    ELSE <<>>

\* Math.floor(Math.random() * 100000).toString().padStart(5, '0')
RandSuffix(rand) == Rep("0", 5 - Len(NatToStr(rand))) \o NatToStr(rand)

\* the name file.setName gives the stored part
StoredName(p, fdate, rand) ==
    IF p.filename = NameImage
    THEN fdate \o <<"-", "i", "m", "a", "g", "e", "-">> \o RandSuffix(rand)
            \o (IF ImageExt(p.mimeType) # <<>> THEN <<".">> \o ImageExt(p.mimeType) ELSE <<>>)
    ELSE sanitizeFilename(fdate \o <<" ">> \o p.filename)

\* the Content-ID header, else the X-Attachment-Id header, with [<>] removed
\* ('' when the part has neither)
PartCid(p) ==
    LET v == IF p.contentId # <<>> THEN p.contentId ELSE p.xAttachmentId
    IN  SelectSeq(v, LAMBDA c : c \notin {"<", ">"})

MapPut(map, k, v) == [x \in (DOMAIN map) \cup {k} |-> IF x = k THEN v ELSE map[x]]

Letters == {"a", "b", "i", "s", "u", "p", "r", "e"}

\* /<[a-z][\s\S]*>/i.test(bodyHtml)
HasMarkup(s) ==
    \E i \in 1..Len(s), j \in 1..Len(s) :
        /\ s[i] = "<"
        /\ i + 1 <= Len(s)
        /\ toLowerCase(<<s[i + 1]>>)[1] \in Letters
        /\ j >= i + 2
        /\ s[j] = ">"

\* the <pre style="..."> wrapper, its style attribute left out
PreOpen == <<"<", "p", "r", "e", ">">>
PreClose == <<"<", "/", "p", "r", "e", ">">>

\* msg.getBody(), wrapped in <pre> when it has no markup
BodyHtml(m) ==
    IF HasMarkup(m.body) THEN m.body ELSE PreOpen \o escapeHtml(m.body) \o PreClose

\* buildMessageHtml: the document's message-derived pieces, in order (the
\* constant markup between them, the Date line and the footer's clock
\* reading are left out)
buildMessageHtml(m, attachments, map) ==
    LET conv == convertCIDtoBase64(BodyHtml(m), map)
    IN  [threw |-> conv.threw,
         title |-> escapeHtml(m.subject),
         from |-> escapeHtml(m.from.text),
         subject |-> escapeHtml(m.subject),
         body |-> conv.html,
         attachments |-> [i \in 1..Len(attachments) |-> escapeHtml(attachments[i])]]

\* the body has a cid: reference to a stored file, whose blob is then read
ReadsBlob(m, map) ==
    LET bodyHtml == BodyHtml(m)
    IN  \E k \in 1..Len(CidMatches(bodyHtml, 1)) :
            MapLookup(map, CidToken(bodyHtml, CidMatches(bodyHtml, 1)[k])) = "file"

NoHtml == [threw |-> FALSE, title |-> <<>>, from |-> <<>>, subject |-> <<>>,
           body |-> <<>>, attachments |-> <<>>]

(***************************************************************************)
(* Control flow of the message loops.                                      *)
(***************************************************************************)
\* threads.forEach / messages.forEach: the position after message (t, m)
NextPos(ths, t, m, loop) ==
    IF m < Len(ths[t]) THEN [pc |-> loop, ti |-> t, mi |-> m + 1]
    ELSE IF t < Len(ths) THEN [pc |-> loop, ti |-> t + 1, mi |-> 1]
    ELSE [pc |-> "done", ti |-> t, mi |-> m]

\* an exception that no try encloses leaves the entry point; cause names the
\* call that raised it
ThrownBy(t, m, cause) == [pc |-> "thrown", ti |-> t, mi |-> m, cause |-> cause]

Thrown(t, m) == ThrownBy(t, m, "persist")

\* a persistence error left uncaught
PersistErrorRethrown(ths, t, m) == Thrown(t, m)

\* a persistence error answered by starting the message's steps again
PersistErrorRetried(ths, t, m) == [pc |-> "eml", ti |-> t, mi |-> m]

\* the catch around the three persistence steps: the error is logged and
\* the loop goes on with the next message
CatchPersistError(ths, t, m) == NextPos(ths, t, m, "msg")

\* parts.forEach: the position after part p of the current message
AfterPart(parts, p) == IF p < Len(parts) THEN "part" ELSE "html"

CurMsg == threads[ti][mi]

(***************************************************************************)
(* Initial state.                                                          *)
(***************************************************************************)
NoEntry == [fn |-> "none"]

RunInit ==
    /\ pc = "idle"
    /\ entry = NoEntry
    /\ err = "none"
    /\ calls = <<>>
    /\ sender = <<>>
    /\ threads = <<>>
    /\ ti = 0
    /\ mi = 0
    /\ pi = 0
    /\ savedAttachments = <<>>
    /\ contentIdMap = NoMap
    /\ html = NoHtml
    /\ drive = <<>>
    /\ attempts = <<>>
    /\ saved = 0

Init == RunInit /\ TextInit

(***************************************************************************)
(* Entry points.                                                           *)
(***************************************************************************)
DateArgs ==
    {<<>>,
     <<"2", "0", "2", "5", "-", "0", "8", "-", "1", "1">>,
     <<"2", "0", "2", "5", "-", "8", "-", "1", "1">>}

SenderArgs == {<<>>, AddrX}

KeywordArgs == {<<>>, <<"K">>}

FolderArgs == {<<>>, <<"F">>}

YearArgs ==
    {YearUndefined, YearStr(<<"a", "b">>), YearStr(<<"2", "0", "2", "4">>)}
        \cup {YearNum(n) : n \in {-1, 0, 999, 2024, 9999}}

\* the body of archiveEmails up to its message loop, called as e
EnterArchiveEmails(e, startDate, endDate, snd, kw, folderId) ==
    LET error == ArchiveEmailsError(startDate, endDate, snd)
    IN  /\ entry' = e
        /\ UNCHANGED <<pi, savedAttachments, contentIdMap, html, drive, attempts, saved>>
        /\ IF error # "none"
           THEN /\ pc' = "thrown"
                /\ err' = error
                /\ UNCHANGED <<calls, sender, threads, ti, mi>>
           ELSE \E exists \in BOOLEAN, ths \in Mailboxes :
                /\ calls' = FolderCalls(folderId, snd \o EmailArchiveSuffix, exists)
                              \o <<[op |-> "search", arg |-> BuildQuery(snd, kw, startDate, endDate)],
                                   [op |-> "getFolderById", arg |-> FolderIdOr(folderId)]>>
                /\ sender' = snd
                /\ threads' = ths
                /\ ti' = 1
                /\ mi' = 1
                /\ pc' = IF ths = <<>> THEN "done" ELSE "msg"
                /\ err' = "none"

CallArchiveEmails ==
    /\ pc = "idle"
    /\ fn = "none"
    /\ \E startDate \in DateArgs, endDate \in DateArgs, snd \in SenderArgs,
          kw \in KeywordArgs, folderId \in FolderArgs :
        EnterArchiveEmails([fn |-> "archiveEmails", startDate |-> startDate,
                            endDate |-> endDate, sender |-> snd,
                            subjectKeyword |-> kw, folderId |-> folderId],
                           startDate, endDate, snd, kw, folderId)
    /\ UNCHANGED textVars

CallArchiveYear ==
    /\ pc = "idle"
    /\ fn = "none"
    /\ \E year \in YearArgs, snd \in SenderArgs, kw \in KeywordArgs, folderId \in FolderArgs :
        LET e == [fn |-> "archiveYear", year |-> year, sender |-> snd,
                  subjectKeyword |-> kw, folderId |-> folderId]
        IN  IF YearRejected(year)
            THEN /\ entry' = e
                 /\ pc' = "thrown"
                 /\ err' = "year"
                 /\ UNCHANGED <<calls, sender, threads, ti, mi, pi, savedAttachments,
                                contentIdMap, html, drive, attempts, saved>>
            ELSE EnterArchiveEmails(e, YearStart(year), YearEnd(year), snd, kw, folderId)
    /\ UNCHANGED textVars

CallArchiveHRNews ==
    /\ pc = "idle"
    /\ fn = "none"
    /\ \E startDate \in DateArgs, endDate \in DateArgs, snd \in SenderArgs,
          kw \in KeywordArgs, folderId \in FolderArgs, exists \in BOOLEAN, ths \in Mailboxes :
        LET snd1 == IF snd = <<>> THEN HRSender ELSE snd
            kw1 == IF kw = <<>> THEN HRKeyword ELSE kw
            lookup == FolderCalls(folderId, HRNewsArchive, exists)
            error == ArchiveHRNewsError(startDate, endDate)
        IN  /\ entry' = [fn |-> "archiveHRNews", startDate |-> startDate,
                         endDate |-> endDate, sender |-> snd,
                         subjectKeyword |-> kw, folderId |-> folderId]
            /\ UNCHANGED <<pi, savedAttachments, contentIdMap, html, drive, attempts, saved>>
            /\ IF error # "none"
               THEN /\ pc' = "thrown"
                    /\ err' = error
                    /\ calls' = lookup
                    /\ UNCHANGED <<sender, threads, ti, mi>>
               ELSE /\ calls' = lookup
                                  \o <<[op |-> "search", arg |-> BuildQuery(snd1, kw1, startDate, endDate)],
                                       [op |-> "getFolderById", arg |-> FolderIdOr(folderId)]>>
                    /\ sender' = snd1
                    /\ threads' = ths
                    /\ ti' = 1
                    /\ mi' = 1
                    /\ pc' = IF ths = <<>> THEN "done" ELSE "hr_msg"
                    /\ err' = "none"
    /\ UNCHANGED textVars

(***************************************************************************)
(* The message loop of archiveEmails.                                      *)
(***************************************************************************)
GoTo(pos) ==
    /\ pc' = pos.pc
    /\ ti' = pos.ti
    /\ mi' = pos.mi
    /\ err' = IF pos.pc = "thrown" THEN pos.cause ELSE err

\* the sender check, then Gmail.Users.Messages.get for an accepted message
StartMessage ==
    /\ pc = "msg"
    /\ IF ~SenderMatches(CurMsg.from.text, sender)
       THEN /\ GoTo(NextPos(threads, ti, mi, "msg"))
            /\ UNCHANGED <<pi, savedAttachments, contentIdMap, html>>
       ELSE \E got \in BOOLEAN :
            /\ savedAttachments' = <<>>
            /\ contentIdMap' = NoMap
            /\ html' = NoHtml
            /\ pi' = 1
            /\ IF got
               THEN GoTo([pc |-> IF CurMsg.parts = <<>> THEN "html" ELSE "part",
                          ti |-> ti, mi |-> mi])
               ELSE GoTo(ThrownBy(ti, mi, "messageGet"))
    /\ UNCHANGED <<entry, calls, sender, threads, drive, attempts, saved, textVars>>

HasCidHeader(p) == p.contentId # <<>> \/ p.xAttachmentId # <<>>

\* the try block of one part with its contentIdMap[cid] = file moved in
\* front of folder.createFile
StorePartMappingFirst(p, outcome) ==
    [created |-> outcome # "createFails",
     pushed |-> outcome = "saved",
     mapped |-> HasCidHeader(p)]

\* the try block of one part, left normally or through its catch: whether
\* folder.createFile returned, whether savedAttachments.push was reached,
\* whether contentIdMap[cid] = file was reached
StorePart(p, outcome) ==
    [created |-> outcome # "createFails",
     pushed |-> outcome = "saved",
     mapped |-> outcome = "saved" /\ HasCidHeader(p)]

PartFile(name) == [name |-> name, kind |-> "part", msg |-> <<ti, mi>>, part |-> pi]

\* one iteration of parts.forEach
HandlePart ==
    /\ pc = "part"
    /\ LET p == CurMsg.parts[pi]
           after == [pc |-> AfterPart(CurMsg.parts, pi), ti |-> ti, mi |-> mi]
           skip == /\ GoTo(after)
                   /\ pi' = pi + 1
                   /\ UNCHANGED <<savedAttachments, contentIdMap, drive>>
           abort == /\ GoTo(ThrownBy(ti, mi, IF p.byRef THEN "fetch" ELSE "decode"))
                    /\ UNCHANGED <<pi, savedAttachments, contentIdMap, drive>>
       IN  IF p.filename = <<>> THEN skip
           ELSE \E fetched \in BOOLEAN,
                   outcome \in {"createFails", "renameFails", "saved"},
                   rand \in 0..(RandRange - 1) :
                IF (p.byRef /\ ~fetched) \/ (~p.byRef /\ ~p.hasData) THEN abort
                ELSE IF ~p.hasData THEN skip
                ELSE /\ GoTo(after)
                     /\ pi' = pi + 1
                     /\ LET r == StorePart(p, outcome)
                            name == StoredName(p, formatDate(CurMsg.date), rand)
                        IN  /\ drive' =
                                 IF r.created
                                 THEN Append(drive, PartFile(IF r.pushed THEN name
                                                                         ELSE p.filename))
                                 ELSE drive
                            /\ savedAttachments' =
                                 IF r.pushed THEN Append(savedAttachments, name)
                                             ELSE savedAttachments
                            /\ contentIdMap' =
                                 IF r.mapped
                                 THEN MapPut(contentIdMap, PartCid(p),
                                             [name |-> name, mime |-> p.mimeType])
                                 ELSE contentIdMap
    /\ UNCHANGED <<entry, calls, sender, threads, html, attempts, saved, textVars>>

\* buildMessageHtml, outside any try
BuildHtml ==
    /\ pc = "html"
    /\ \E blobRead \in BOOLEAN :
        LET doc == buildMessageHtml(CurMsg, savedAttachments, contentIdMap)
        IN  IF doc.threw \/ (ReadsBlob(CurMsg, contentIdMap) /\ ~blobRead)
            THEN GoTo(ThrownBy(ti, mi, "render")) /\ UNCHANGED html
            ELSE GoTo([pc |-> "eml", ti |-> ti, mi |-> mi]) /\ html' = doc
    /\ UNCHANGED <<entry, calls, sender, threads, pi, savedAttachments, contentIdMap,
                   drive, attempts, saved, textVars>>

Artifact(step, ext) ==
    [name |-> filenameBase(CurMsg) \o ext, kind |-> step, msg |-> <<ti, mi>>, part |-> 0]

Attempt(step, ok) == [msg |-> <<ti, mi>>, step |-> step, ok |-> ok]

\* msg.getRawContent() and folder.createFile(emlBlob)
SaveEml ==
    /\ pc = "eml"
    /\ \E ok \in BOOLEAN :
        /\ attempts' = Append(attempts, Attempt("eml", ok))
        /\ IF ok
           THEN /\ drive' = Append(drive, Artifact("eml", ExtEml))
                /\ GoTo([pc |-> "htmlfile", ti |-> ti, mi |-> mi])
           ELSE /\ UNCHANGED drive
                /\ GoTo(CatchPersistError(threads, ti, mi))
    /\ UNCHANGED <<entry, calls, sender, threads, pi, savedAttachments, contentIdMap,
                   html, saved, textVars>>

\* folder.createFile(htmlBlob)
SaveHtml ==
    /\ pc = "htmlfile"
    /\ \E ok \in BOOLEAN :
        /\ attempts' = Append(attempts, Attempt("html", ok))
        /\ IF ok
           THEN /\ drive' = Append(drive, Artifact("html", ExtHtml))
                /\ GoTo([pc |-> "pdf", ti |-> ti, mi |-> mi])
           ELSE /\ UNCHANGED drive
                /\ GoTo(CatchPersistError(threads, ti, mi))
    /\ UNCHANGED <<entry, calls, sender, threads, pi, savedAttachments, contentIdMap,
                   html, saved, textVars>>

\* htmlBlob.getAs('application/pdf') and folder.createFile(pdfBlob)
SavePdf ==
    /\ pc = "pdf"
    /\ \E ok \in BOOLEAN :
        /\ attempts' = Append(attempts, Attempt("pdf", ok))
        /\ IF ok
           THEN /\ drive' = Append(drive, Artifact("pdf", ExtPdf))
                /\ saved' = saved + 1
                /\ GoTo(NextPos(threads, ti, mi, "msg"))
           ELSE /\ UNCHANGED <<drive, saved>>
                /\ GoTo(CatchPersistError(threads, ti, mi))
    /\ UNCHANGED <<entry, calls, sender, threads, pi, savedAttachments, contentIdMap,
                   html, textVars>>

(***************************************************************************)
(* The message loop of archiveHRNews.                                      *)
(***************************************************************************)
\* msg.getAttachments(): the parts that carry a filename
AttachmentIdx(m) == {i \in 1..Len(m.parts) : m.parts[i].filename # <<>>}

\* the files folder.createFile makes for the attachments in ok, in order
RECURSIVE AttachmentFiles(_, _, _, _, _)
AttachmentFiles(m, ok, i, t, k) ==
    IF i > Len(m.parts) THEN <<>>
    ELSE IF i \in ok
         THEN <<[name |-> m.parts[i].filename, kind |-> "part", msg |-> <<t, k>>, part |-> i]>>
                  \o AttachmentFiles(m, ok, i + 1, t, k)
         ELSE AttachmentFiles(m, ok, i + 1, t, k)

\* msg.getId()
MessageId(t, k) == <<"m">> \o NatToStr(t) \o NatToStr(k)

\* formattedDate + ' - ' + safeSubject + ' - ' + msg.getId()
filenameBaseHRNews(m, t, k) == filenameBase(m) \o <<" ", "-", " ">> \o MessageId(t, k)

\* the attachments, then buildMessageHtml(msg, savedAttachmentNames): the
\* call reaches the three-parameter buildMessageHtml (the later declaration
\* of that name), which calls getName() on each saved name, a string
HRNewsMessage ==
    /\ pc = "hr_msg"
    /\ \E ok \in SUBSET AttachmentIdx(CurMsg) :
        /\ drive' = drive \o AttachmentFiles(CurMsg, ok, 1, ti, mi)
        /\ savedAttachments' = [i \in 1..Len(AttachmentFiles(CurMsg, ok, 1, ti, mi)) |->
                                   AttachmentFiles(CurMsg, ok, 1, ti, mi)[i].name]
        /\ IF ok # {}
           THEN GoTo(ThrownBy(ti, mi, "render")) /\ UNCHANGED html
           ELSE /\ GoTo([pc |-> "hr_pdf", ti |-> ti, mi |-> mi])
                /\ html' = [threw |-> FALSE,
                            title |-> escapeHtml(CurMsg.subject),
                            from |-> escapeHtml(CurMsg.from.text),
                            subject |-> escapeHtml(CurMsg.subject),
                            body |-> BodyHtml(CurMsg),
                            attachments |-> <<>>]
    /\ UNCHANGED <<entry, calls, sender, threads, pi, contentIdMap, attempts, saved, textVars>>

\* htmlBlob.getAs('application/pdf') and folder.createFile(pdfBlob), in a try
HRNewsPdf ==
    /\ pc = "hr_pdf"
    /\ \E ok \in BOOLEAN :
        /\ attempts' = Append(attempts, Attempt("pdf", ok))
        /\ IF ok
           THEN /\ drive' = Append(drive, [name |-> filenameBaseHRNews(CurMsg, ti, mi) \o ExtPdf,
                                           kind |-> "pdf", msg |-> <<ti, mi>>, part |-> 0])
                /\ saved' = saved + 1
           ELSE UNCHANGED <<drive, saved>>
        /\ GoTo(NextPos(threads, ti, mi, "hr_msg"))
    /\ UNCHANGED <<entry, calls, sender, threads, pi, savedAttachments, contentIdMap,
                   html, textVars>>

(***************************************************************************)
(* Specifications.                                                         *)
(***************************************************************************)
Next ==
    \/ CallArchiveEmails
    \/ CallArchiveYear
    \/ CallArchiveHRNews
    \/ StartMessage
    \/ HandlePart
    \/ BuildHtml
    \/ SaveEml
    \/ SaveHtml
    \/ SavePdf
    \/ HRNewsMessage
    \/ HRNewsPdf

\* one run of an entry point
Spec == Init /\ [][Next]_vars

\* the pure helpers applied to enumerated inputs
SpecText == Init /\ [][TextNext]_vars

(***************************************************************************)
(* Properties.                                                             *)
(***************************************************************************)
InArchiveEmails == entry.fn \in {"archiveEmails", "archiveYear"}

\* message mm is no longer the one being processed
Finished(mm) == pc = "done" \/ <<ti, mi>> # mm

Steps == {"eml", "html", "pdf"}

Attempted(mm, step) ==
    \E j \in 1..Len(attempts) : attempts[j].msg = mm /\ attempts[j].step = step

\* C1: for every accepted message the three persistence steps are attempted
\* independently: once a message is finished, each of the steps source,
\* HTML and PDF was attempted for it, whichever of them failed.
C1_StepsIndependent ==
    InArchiveEmails =>
        \A i \in 1..Len(attempts) :
            Finished(attempts[i].msg) =>
                \A step \in Steps : Attempted(attempts[i].msg, step)

HasNextMessage == mi < Len(threads[ti]) \/ ti < Len(threads)

\* C2: a failed PDF conversion or PDF store for one message is followed
\* directly by the start of the next message of the run, in thread order
\* (or by the end of the run after the last message); no exception leaves
\* archiveEmails.
C2_PdfFailureContained ==
    [][(pc = "pdf" /\ Len(attempts') = Len(attempts) + 1
            /\ ~attempts'[Len(attempts')].ok)
        => /\ err' = "none"
           /\ IF HasNextMessage
              THEN /\ pc' = "msg"
                   /\ <<ti', mi'>> = IF mi < Len(threads[ti])
                                     THEN <<ti, mi + 1>> ELSE <<ti + 1, 1>>
              ELSE pc' = "done"]_vars

\* a PDF failure for one message, and a later message fully saved
C2_Witness ==
    /\ InArchiveEmails
    /\ \E i, j \in 1..Len(attempts) :
        /\ i < j
        /\ attempts[i].step = "pdf" /\ ~attempts[i].ok
        /\ attempts[j].msg # attempts[i].msg
        /\ attempts[j].step = "pdf" /\ attempts[j].ok

FileMsg(f) == threads[f.msg[1]][f.msg[2]]

SameAddress(a, b) == toLowerCase(a) = toLowerCase(b)

\* C3: nothing is persisted for a message whose sender address differs from
\* the target sender (compared without case, on the address only): every
\* file in the folder comes from a message whose address is the sender's.
C3_OnlySenderPersisted ==
    InArchiveEmails =>
        \A i \in 1..Len(drive) : SameAddress(FileMsg(drive[i]).from.addr, sender)

ArtifactKinds == {"eml", "html", "pdf"}

ArtifactsOf(mm) ==
    {drive[i] : i \in {k \in 1..Len(drive) : drive[k].msg = mm /\ drive[k].kind \in ArtifactKinds}}

\* the stem "<D as yyyy-MM-dd> - <sanitize(S)>"
ClaimedStem(m) == formatDate(m.date) \o <<" ", "-", " ">> \o sanitizeFilename(m.subject)

\* C4: for a thread of one message from the target sender (with a subject)
\* and one reply from another address, a run without failures ends with
\* exactly one source, one HTML and one PDF file, named by the stem
\* "<date> - <sanitized subject>", and with no file for the reply.
C4_OneArtifactSet ==
    (/\ InArchiveEmails
     /\ pc = "done"
     /\ Len(threads) = 1
     /\ Len(threads[1]) = 2
     /\ SameAddress(threads[1][1].from.addr, sender)
     /\ threads[1][1].subject # <<>>
     /\ ~SameAddress(threads[1][2].from.addr, sender)
     /\ \A i \in 1..Len(attempts) : attempts[i].ok)
    => /\ {[name |-> f.name, kind |-> f.kind] : f \in ArtifactsOf(<<1, 1>>)}
            = {[name |-> ClaimedStem(threads[1][1]) \o ExtEml, kind |-> "eml"],
               [name |-> ClaimedStem(threads[1][1]) \o ExtHtml, kind |-> "html"],
               [name |-> ClaimedStem(threads[1][1]) \o ExtPdf, kind |-> "pdf"]}
       /\ Cardinality({i \in 1..Len(drive) : drive[i].msg = <<1, 1>>
                                               /\ drive[i].kind \in ArtifactKinds}) = 3
       /\ \A i \in 1..Len(drive) : drive[i].msg # <<1, 2>>

PreconditionErrors == {"sender", "startDate", "endDate", "year"}

\* C5: in every entry point a precondition error is raised before any
\* remote call: when one has left the entry point, no Drive or Gmail call
\* was made and nothing was written.
C5_PreconditionBeforeRemote ==
    (pc = "thrown" /\ err \in PreconditionErrors) => (calls = <<>> /\ drive = <<>>)

SearchCalls == SelectSeq(calls, LAMBDA c : c.op = "search")

\* C6: for every integer year Y, archiveYear(Y, ...) does what
\* archiveEmails("Y-01-01", "(Y+1)-01-01", ...) does: it raises a
\* precondition error, with no remote call, exactly when those arguments
\* make archiveEmails raise one, and otherwise issues the one search
\* from:<sender> subject:"<keyword>" after:Y-01-01 before:(Y+1)-01-01.
C6_YearIsRange ==
    (pc # "idle" /\ entry.fn = "archiveYear" /\ entry.year.t = "number") =>
        LET startDate == NumToStr(entry.year.v) \o Dash0101
            endDate == NumToStr(entry.year.v + 1) \o Dash0101
            kw == entry.subjectKeyword
        IN  IF ArchiveEmailsError(startDate, endDate, entry.sender) # "none"
            THEN pc = "thrown" /\ err \in PreconditionErrors /\ calls = <<>>
            ELSE /\ err \notin PreconditionErrors
                 /\ Len(SearchCalls) = 1
                 /\ SearchCalls[1].arg =
                        <<"f", "r", "o", "m", ":">> \o entry.sender
                            \o <<" ", "s", "u", "b", "j", "e", "c", "t", ":", "\"">> \o kw
                            \o <<"\"", " ", "a", "f", "t", "e", "r", ":">> \o startDate
                            \o <<" ", "b", "e", "f", "o", "r", "e", ":">> \o endDate

\* archiveYear(2024, ...) ran to the end and saved a message
C6_Witness ==
    /\ entry.fn = "archiveYear"
    /\ entry.year = YearNum(2024)
    /\ pc = "done"
    /\ saved > 0
    /\ Len(SearchCalls) = 1

\* C7: sanitizeFilename's result holds none of \ / : * ? " < > | and is at
\* most 121 characters long, the truncation marker included.
C7_SanitizeBounded ==
    fn = "sanitizeFilename" =>
        /\ \A i \in 1..Len(fnOut) : fnOut[i] \notin IllegalChars
        /\ Len(fnOut) <= SanitizeMax + 1

\* characters that cannot belong to a content id in a message body: those
\* the pattern stops at, a closing parenthesis and an opening angle bracket
TokenStops == CidDelims \cup {")", "<"}

\* cid:<k> stands in s, followed by the end of s or by a character that is
\* not part of a content id
CidReferenceIn(s, k) ==
    \E i \in 1..Len(s) :
        /\ MatchAt(s, CidPrefix \o k, i)
        /\ (i + 4 + Len(k) > Len(s) \/ s[i + 4 + Len(k)] \in TokenStops)

\* C8: after convertCIDtoBase64 no reference cid:<token> whose token is a key
\* of the content-id map is left in the HTML, whatever character follows the
\* token; and with no key in the map the HTML is returned unchanged.
C8_CidResolved ==
    (fn = "convertCIDtoBase64" /\ ~fnOut.threw) =>
        /\ \A k \in DOMAIN fnMap : ~CidReferenceIn(fnOut.html, k)
        /\ (DOMAIN fnMap = {} => fnOut.html = fnIn)

HtmlSpecials == {"&", "<", ">", "\""}

HasSpecial(s) == \E i \in 1..Len(s) : s[i] \in HtmlSpecials

\* C9 as stated: escapeHtml of a string holding any of & < > " returns a
\* string that holds none of these four characters.
C9_NoSpecialsLeft ==
    (fn = "escapeHtml" /\ HasSpecial(fnIn)) => ~HasSpecial(fnOut)

\* C9: escapeHtml of a string holding any of & < > " returns a string that
\* holds none of < > " , and in which every & begins one of the entities
\* &amp; &lt; &gt; &quot;
C9_EscapedOutput ==
    (fn = "escapeHtml" /\ HasSpecial(fnIn)) =>
        /\ \A i \in 1..Len(fnOut) : fnOut[i] \notin {"<", ">", "\""}
        /\ \A i \in 1..Len(fnOut) :
              fnOut[i] = "&" => \E e \in {Amp, Lt, Gt, Quot} : MatchAt(fnOut, e, i)

\* escapeHtml applied to a string that holds all four characters
C9_Witness ==
    /\ fn = "escapeHtml"
    /\ \A c \in HtmlSpecials : \E i \in 1..Len(fnIn) : fnIn[i] = c
    /\ Len(fnOut) > Len(fnIn)

DeclaredName(f) == FileMsg(f).parts[f.part].filename

\* C10: an inline image declared as "image", once stored and renamed, has a
\* name distinct from the stored name of every other part of its message,
\* other parts declared as "image" included.
C10_ImageNamesDistinct ==
    InArchiveEmails =>
        \A i, j \in 1..Len(drive) :
            (/\ i # j
             /\ drive[i].kind = "part" /\ drive[j].kind = "part"
             /\ drive[i].msg = drive[j].msg
             /\ DeclaredName(drive[i]) = NameImage
             /\ drive[i].name # NameImage)
            => drive[i].name # drive[j].name

\* the causes an extraction error of one part can have: the fetch by
\* reference fails, or the embedded payload cannot be decoded
PartErrors == {"fetch", "decode"}

\* C11: an extraction error of one part is not fatal: no run of archiveEmails
\* is left through an exception raised while the bytes of a part were
\* fetched or decoded.
C11_PartErrorsContained == InArchiveEmails => err \notin PartErrors

SubjectOperator == <<"s", "u", "b", "j", "e", "c", "t", ":">>

\* C12: when subjectKeyword is absent, the search expression archiveEmails
\* hands to Gmail holds no subject clause.
C12_NoSubjectClause ==
    (InArchiveEmails /\ entry.subjectKeyword = <<>>) =>
        \A i \in 1..Len(calls) :
            calls[i].op = "search" => ~Contains(calls[i].arg, SubjectOperator)

\* the causes an error of one message can have outside its parts and its
\* artifacts: fetching its MIME structure, rendering its HTML
MessageErrors == {"messageGet", "render"}

\* C13: a failure while the MIME structure of one message is fetched or
\* while its HTML is rendered is contained to that message: no run of
\* archiveEmails is left through such an exception.
C13_MessageErrorsContained == InArchiveEmails => err \notin MessageErrors

\* the part loop of one message of archiveEmails, and the point right after it
InPartLoop == InArchiveEmails /\ pc \in {"part", "html"}

IsSaved(name) == \E j \in 1..Len(savedAttachments) : savedAttachments[j] = name

\* key k of contentIdMap is the identifier of a part of the current message
\* that was handled, whose file is in the folder and in savedAttachments
KeyFromPersistedPart(k) ==
    \E q \in 1..Len(CurMsg.parts) :
        LET p == CurMsg.parts[q]
        IN  /\ q < pi
            /\ HasCidHeader(p)
            /\ PartCid(p) = k
            /\ IsSaved(contentIdMap[k].name)
            /\ \E i \in 1..Len(drive) :
                  drive[i] = [name |-> contentIdMap[k].name, kind |-> "part",
                              msg |-> <<ti, mi>>, part |-> q]

C14_KeysDerived == InPartLoop => \A k \in DOMAIN contentIdMap : KeyFromPersistedPart(k)

\* one iteration of the part loop over a part that has a name and bytes: if
\* it did not add the part to savedAttachments (its persisting failed), both
\* collections are as before and the loop is at the next part; if it did and
\* the part has no identifier header, the map is as before
C14_PartStep ==
    (InArchiveEmails /\ pc = "part" /\ pc' # "thrown") =>
        LET p == CurMsg.parts[pi]
        IN  /\ (p.filename # <<>> /\ p.hasData
                    /\ Len(savedAttachments') = Len(savedAttachments))
               => /\ savedAttachments' = savedAttachments
                  /\ contentIdMap' = contentIdMap
                  /\ pi' = pi + 1
                  /\ pc' = AfterPart(CurMsg.parts, pi)
            /\ (Len(savedAttachments') > Len(savedAttachments) /\ ~HasCidHeader(p))
               => contentIdMap' = contentIdMap

\* C14: at every point of the part loop of a message every key of
\* contentIdMap is the identifier (Content-ID, else X-Attachment-Id, without
\* angle brackets) of a part whose file was created and is in
\* savedAttachments; a failure to persist one part leaves savedAttachments
\* and contentIdMap as they were and the loop goes on with the next part; a
\* part without identifier header is persisted and adds no map entry.
C14_MapFromPersistedParts == []C14_KeysDerived /\ [][C14_PartStep]_vars

\* the part loop of a message is over, an earlier part left an entry in
\* contentIdMap, and a later part was created in the folder but failed before
\* it was added to savedAttachments
C14_Witness ==
    /\ InArchiveEmails
    /\ pc = "html"
    /\ \E i, j \in 1..Len(drive) :
          /\ drive[i].kind = "part" /\ drive[j].kind = "part"
          /\ drive[i].msg = <<ti, mi>> /\ drive[j].msg = <<ti, mi>>
          /\ drive[i].part < drive[j].part
          /\ PartCid(CurMsg.parts[drive[i].part]) \in DOMAIN contentIdMap
          /\ IsSaved(drive[i].name)
          /\ ~IsSaved(drive[j].name)

StepRank(step) == CASE step = "eml" -> 1 [] step = "html" -> 2 [] step = "pdf" -> 3

\* message a comes before message b in the order of the two loops
MsgBefore(a, b) == a[1] < b[1] \/ (a[1] = b[1] /\ a[2] < b[2])

\* of two attempts, the earlier one is an earlier step of the same message
\* or a step of an earlier message
C15_AttemptsOrdered ==
    \A i, j \in 1..Len(attempts) :
        i < j => \/ /\ attempts[i].msg = attempts[j].msg
                    /\ StepRank(attempts[i].step) < StepRank(attempts[j].step)
                 \/ MsgBefore(attempts[i].msg, attempts[j].msg)

\* of two files in the folder, the earlier one belongs to the same or to an
\* earlier message, and a part file never follows an artifact of its message
C15_FilesOrdered ==
    \A i, j \in 1..Len(drive) :
        i < j => \/ /\ drive[i].msg = drive[j].msg
                    /\ drive[i].kind # "part" => drive[j].kind # "part"
                 \/ MsgBefore(drive[i].msg, drive[j].msg)

\* an attempt is made for the message at hand, with its part loop over, and
\* touches neither the loop position nor what the loop collected
C15_AttemptStep ==
    (InArchiveEmails /\ attempts' # attempts) =>
        /\ \E step \in Steps, ok \in BOOLEAN :
              attempts' = Append(attempts, [msg |-> <<ti, mi>>, step |-> step, ok |-> ok])
        /\ pi > Len(CurMsg.parts)
        /\ UNCHANGED <<pi, savedAttachments, contentIdMap>>

\* C15: within one run of archiveEmails the persistence attempts of a
\* message come in the order source, HTML, PDF, after all its parts were
\* handled, each at most once, and no step of a later message precedes a
\* step of an earlier one.
C15_PersistenceOrder ==
    /\ [](InArchiveEmails => C15_AttemptsOrdered /\ C15_FilesOrdered)
    /\ [][C15_AttemptStep]_vars

\* a run in which an attempt failed, a later message was then taken up, and
\* some message with a stored part went through all three steps
C15_Witness ==
    /\ InArchiveEmails
    /\ pc = "done"
    /\ \E i, j \in 1..Len(attempts) :
          /\ i < j
          /\ ~attempts[i].ok
          /\ attempts[i].msg # attempts[j].msg
    /\ \E k \in 1..Len(drive) :
          /\ drive[k].kind = "part"
          /\ \A step \in Steps : Attempted(drive[k].msg, step)

====
